---- MODULE Spec2Model ----
(***************************************************************************)
(* Model of the Remote Settings client (src/src/client.rs): Client::get,   *)
(* Client::sync and merge_changes, with the Storage, Verification and      *)
(* kinto_http collaborators as nondeterministic environments.              *)
(*                                                                         *)
(* Conventions.  An Option<T> is a sequence of length 0 (None) or 1        *)
(* (Some).  A JSON object with optional members is a record whose fields   *)
(* are Options.  A String assembled by format! is a sequence of its parts. *)
(***************************************************************************)
EXTENDS Integers, Sequences, FiniteSets, TLC

\* ------------------------------------------------------------------ bounds
\* Largest timestamp / last_modified value the environment produces.
MaxTs == 2
\* Longest list of change entries a changeset response carries.
MaxChanges == 2
\* Longest local record list and longest change list merge_changes is applied to.
MaxLocal == 2
MaxMergeChanges == 3

\* ------------------------------------------------------------- Option<T>
None == <<>>
Some(v) == <<v>>
IsSome(o) == Len(o) = 1
IsNone(o) == Len(o) = 0
Unwrap(o) == o[1]

\* ----------------------------------------------------------- environment
\* Engine instances sharing one Persistence key.
Clients == {"c1", "c2"}
\* Record ids the remote source uses in the orchestration runs.
Ids == {"a"}
Timestamps == 0 .. MaxTs
bucket_name == "main"
collection_name == "cid"
EmptyMetadata == "{}"

\* Record(serde_json::Value): an object with optional members.
MkRecord(id, lm, del) == [id |-> id, last_modified |-> lm, deleted |-> del]
\* Values the "deleted" member takes: absent, the boolean true, a string.
DeletedValues == {None, Some("true"), Some("\"foo\"")}
\* Those the remote source sends in the orchestration runs.
SentDeletedValues == {None, Some("true")}
\* A change entry without an "id" member (data corruption).
EntryWithoutId == MkRecord(None, Some(1), None)
\* The record json!({}) of test_get_bad_stored_data_if_untrusted.
EmptyObject == MkRecord(None, None, None)
ChangeEntries ==
    { MkRecord(Some(i), Some(t), d) : i \in Ids, t \in 1 .. MaxTs, d \in SentDeletedValues }
        \cup {EntryWithoutId}

RECURSIVE SeqsUpTo(_, _)
SeqsUpTo(S, n) ==
    IF n = 0 THEN {<<>>}
    ELSE LET shorter == SeqsUpTo(S, n - 1)
         IN  shorter \cup { Append(s, e) : s \in {q \in shorter : Len(q) = n - 1}, e \in S }

\* Responses of kinto_http::get_changeset: { metadata, changes, timestamp }.
ChangesetResponses ==
    [metadata : {EmptyMetadata}, changes : SeqsUpTo(ChangeEntries, MaxChanges), timestamp : Timestamps]

\* ----------------------------------------------------------------- errors
Name(s) == <<s>>
SignatureErrors ==
    { [kind |-> "InvalidSignature", name |-> Name("invalid signature error")],
      [kind |-> "CertificateError", name |-> Name("certificate error")] }
StorageWriteErrors == { [kind |-> "Error", name |-> Name("storage write error")] }
StorageReadErrors == { [kind |-> "ReadError", name |-> Name("storage read error")] }
SerdeErrors == { [kind |-> "serde_json", name |-> Name("key must be a string")] }
KintoErrors ==
    { [kind |-> "ServerError", name |-> Name("server error"), response |-> Some("503"),
       bucket |-> bucket_name, collection |-> collection_name],
      [kind |-> "ClientError", name |-> Name("client error"), response |-> Some("400"),
       bucket |-> bucket_name, collection |-> collection_name],
      [kind |-> "ContentError", name |-> Name("content error"), response |-> Some("garbled"),
       bucket |-> bucket_name, collection |-> collection_name],
      [kind |-> "UnknownCollection", name |-> Name(""), response |-> None,
       bucket |-> bucket_name, collection |-> collection_name] }

\* enum ClientError; `response` is None for the variants that have no such field.
ClientError(type, name, response) == [type |-> type, name |-> name, response |-> response]

\* impl From<KintoError> for ClientError
From_KintoError(err) ==
    CASE err.kind = "ServerError" -> ClientError("APIError", err.name, err.response)
      [] err.kind = "ClientError" -> ClientError("APIError", err.name, err.response)
      [] err.kind = "ContentError" -> ClientError("APIError", err.name, None)
      [] err.kind = "UnknownCollection" ->
            ClientError("APIError",
                        <<"Unknown collection ", err.bucket, "/", err.collection>>, None)

\* impl From<serde_json::error::Error> for ClientError
From_SerdeError(err) ==
    ClientError("StorageError", <<"Could not de/serialize data: ">> \o err.name, None)

\* From<StorageError> with the write error filed under the wrong variant.
From_StorageError_AsAPIError(err) ==
    CASE err.kind = "ReadError" -> ClientError("StorageError", err.name, None)
      [] err.kind = "Error" -> ClientError("APIError", err.name, None)

\* impl From<StorageError> for ClientError
From_StorageError(err) ==
    CASE err.kind = "ReadError" -> ClientError("StorageError", err.name, None)
      [] err.kind = "Error" -> ClientError("StorageError", err.name, None)

\* From<SignatureError> that files the failure under APIError.
From_SignatureError_AsAPIError(err) == ClientError("APIError", err.name, None)

\* impl From<SignatureError> for ClientError
From_SignatureError(err) ==
    CASE err.kind = "CertificateError" -> ClientError("VerificationError", err.name, None)
      [] err.kind = "VerificationError" -> ClientError("VerificationError", err.name, None)
      [] err.kind = "InvalidSignature" -> ClientError("VerificationError", err.name, None)

\* ------------------------------------------------------------- data model
\* A Collection whose timestamp is computed from its records (0 when they
\* carry no last_modified).
MkCollection_TimestampFromRecords(bid, cid, metadata, records, timestamp) ==
    LET stamps == { Unwrap(records[i].last_modified) :
                      i \in { k \in 1 .. Len(records) : records[k].last_modified # <<>> } }
    IN  [bid |-> bid, cid |-> cid, metadata |-> metadata, records |-> records,
         timestamp |-> IF stamps = {} THEN 0
                       ELSE CHOOSE m \in stamps : \A n \in stamps : n <= m]

\* struct Collection
MkCollection(bid, cid, metadata, records, timestamp) ==
    [bid |-> bid, cid |-> cid, metadata |-> metadata, records |-> records,
     timestamp |-> timestamp]

\* Record::get
Record_get(r, key) ==
    CASE key = "id" -> r.id
      [] key = "last_modified" -> r.last_modified
      [] key = "deleted" -> r.deleted
      [] OTHER -> None

\* Record::id panics (unwrap) when the member is missing.
Record_id_panics(r) == IsNone(r.id)
Record_id(r) == Unwrap(r.id)

\* Record::deleted that takes any "deleted" member for a deletion.
Record_deleted_AnyValue(r) == IsSome(Record_get(r, "deleted"))

\* Record::deleted: as_bool().unwrap_or(false) of the member, false if absent.
Record_deleted(r) ==
    LET v == Record_get(r, "deleted")
    IN  IF IsSome(v) THEN Unwrap(v) = "true" ELSE FALSE

\* An encoding that leaves the records out.
Encode_WithoutRecords(c) ==
    [json |-> "object",
     members |-> Some(<<c.bid, c.cid, c.metadata, <<>>, c.timestamp>>)]

\* serde_json::to_string(&collection): the JSON text of the five members.
Encode(c) ==
    [json |-> "object",
     members |-> Some(<<c.bid, c.cid, c.metadata, c.records, c.timestamp>>)]
\* Byte strings that are not the JSON of a Collection.
GarbageBytes == [json |-> "garbage", members |-> None]
EmptyBytes == [json |-> "empty", members |-> None]

\* serde_json::from_slice::<Option<Collection>>(&bytes).unwrap_or(None)
Decode(bytes) ==
    IF bytes.json = "object" /\ IsSome(bytes.members)
    THEN LET m == Unwrap(bytes.members)
         IN  Some(MkCollection(m[1], m[2], m[3], m[4], m[5]))
    ELSE None

\* Client::_storage_key
_storage_key == <<bucket_name, "/", collection_name, ":collection">>

\* Values Persistence may hold under the key before the first call.
InitialCollections ==
    { MkCollection(bucket_name, collection_name, EmptyMetadata,
                   <<MkRecord(Some("a"), Some(1), None)>>, 1),
      MkCollection(bucket_name, collection_name, EmptyMetadata, <<EmptyObject>>, 1) }
InitialStorage == {None, Some(GarbageBytes)} \cup { Some(Encode(c)) : c \in InitialCollections }

\* ------------------------------------------------------------ merge_changes
\* HashMap::insert / HashMap::remove on a map from id to Record.
MapInsert(m, k, v) == [x \in DOMAIN m \cup {k} |-> IF x = k THEN v ELSE m[x]]
MapRemove(m, k) == [x \in DOMAIN m \ {k} |-> m[x]]
EmptyMap == [x \in {} |-> EmptyObject]

\* local_records.into_iter().map(|record| (record.id().into(), record)).collect()
RECURSIVE CollectById(_, _)
CollectById(records, m) ==
    IF records = <<>> THEN m
    ELSE CollectById(Tail(records), MapInsert(m, Record_id(Head(records)), Head(records)))

\* ApplyChange in which a content entry never overwrites a held record.
ApplyChange_KeepsHeld(m, change) ==
    IF Record_deleted(change)
    THEN MapRemove(m, Record_id(change))
    ELSE IF Record_id(change) \in DOMAIN m THEN m
         ELSE MapInsert(m, Record_id(change), change)

\* ApplyChange that skips tombstones.
ApplyChange_NeverRemoves(m, change) ==
    IF Record_deleted(change)
    THEN m
    ELSE MapInsert(m, Record_id(change), change)

\* ApplyChange that keeps the tombstone of an id the map does not hold.
ApplyChange_KeepsUnheldTombstone(m, change) ==
    IF Record_deleted(change) /\ Record_id(change) \in DOMAIN m
    THEN MapRemove(m, Record_id(change))
    ELSE MapInsert(m, Record_id(change), change)

\* The body of `for entry in ...`: a tombstone removes its id, anything else
\* inserts or overwrites it.
ApplyChange(m, change) ==
    IF Record_deleted(change)
    THEN MapRemove(m, Record_id(change))
    ELSE MapInsert(m, Record_id(change), change)

\* for entry in remote_changes.into_iter().rev(): the last entry is applied first.
RECURSIVE FoldChangesRev(_, _)
FoldChangesRev(changes, m) ==
    IF changes = <<>> THEN m
    ELSE FoldChangesRev(SubSeq(changes, 1, Len(changes) - 1),
                        ApplyChange(m, changes[Len(changes)]))

\* Record::id() unwraps: merge_changes panics on any record or entry without id.
merge_changes_panics(local_records, remote_changes) ==
    \/ \E i \in 1 .. Len(local_records) : Record_id_panics(local_records[i])
    \/ \E i \in 1 .. Len(remote_changes) : Record_id_panics(remote_changes[i])

\* merge_changes that folds the changes in received order (no .rev()).
merge_changes_map_ForwardOrder(local_records, remote_changes) ==
    FoldChangesRev([i \in 1 .. Len(remote_changes) |->
                       remote_changes[Len(remote_changes) + 1 - i]],
                   CollectById(local_records, EmptyMap))

\* merge_changes that starts from an empty map instead of the local records.
merge_changes_map_DropsLocal(local_records, remote_changes) ==
    FoldChangesRev(remote_changes, EmptyMap)

\* local_by_id at the end of merge_changes.
merge_changes_map(local_records, remote_changes) ==
    FoldChangesRev(remote_changes, CollectById(local_records, EmptyMap))

\* local_by_id.into_iter().map(|(_, v)| v).collect(): the values in any order.
MapValuesInAnyOrder(m) ==
    LET n == Cardinality(DOMAIN m)
    IN  { [i \in 1 .. n |-> m[f[i]]] :
            f \in { g \in [1 .. n -> DOMAIN m] : \A i, j \in 1 .. n : i # j => g[i] # g[j] } }

\* The Vec<Record> values merge_changes may return.
merge_changes(local_records, remote_changes) ==
    MapValuesInAnyOrder(merge_changes_map(local_records, remote_changes))

\* ------------------------------------------------------------ collaborators
Outcome(ok, value, error) == [ok |-> ok, value |-> value, error |-> error]

\* Storage::retrieve: DummyStorage holds nothing; a retaining storage
\* (MemoryStorage, FileStorage) returns what it holds or fails to read.
StorageTypes == {"DummyStorage", "FileStorage"}
RetrieveOutcomes(type, held) ==
    IF type = "DummyStorage" THEN {Outcome(TRUE, Some(None), None)}
    ELSE {Outcome(TRUE, Some(held), None)}
            \cup { Outcome(FALSE, None, Some(e)) : e \in StorageReadErrors }

\* Storage::store: DummyStorage accepts and drops the value; a retaining
\* storage replaces the value or fails and keeps the old one.
StoreOutcomes(type) ==
    IF type = "DummyStorage" THEN {Outcome(TRUE, None, None)}
    ELSE {Outcome(TRUE, None, None)}
            \cup { Outcome(FALSE, None, Some(e)) : e \in StorageWriteErrors }
\* A store that is not atomic: a failed write leaves torn bytes behind.
StorageAfterStore_TornOnFailure(type, held, bytes, outcome) ==
    IF type = "FileStorage"
    THEN IF outcome.ok THEN Some(bytes) ELSE Some(GarbageBytes)
    ELSE held

StorageAfterStore(type, held, bytes, outcome) ==
    IF type = "FileStorage" /\ outcome.ok THEN Some(bytes) ELSE held

\* Verification::verify: any verifier, accepting or failing on each call.
VerifyOutcomes ==
    {Outcome(TRUE, None, None)} \cup { Outcome(FALSE, None, Some(e)) : e \in SignatureErrors }

\* kinto_http::get_latest_change_timestamp
TimestampOutcomes ==
    { Outcome(TRUE, Some(t), None) : t \in Timestamps }
        \cup { Outcome(FALSE, None, Some(e)) : e \in KintoErrors }

\* kinto_http::get_changeset
ChangesetOutcomes ==
    { Outcome(TRUE, Some(cs), None) : cs \in ChangesetResponses }
        \cup { Outcome(FALSE, None, Some(e)) : e \in KintoErrors }

\* serde_json::to_string(&collection)
EncodeOutcomes(c) ==
    {Outcome(TRUE, Some(Encode(c)), None)}
        \cup { Outcome(FALSE, None, Some(e)) : e \in SerdeErrors }

\* -------------------------------------------------------------------- state
VARIABLES
    storage,           \* Option<bytes> held by Persistence under _storage_key
    storage_type,      \* Client.storage: which Storage implementation
    sync_if_empty,     \* Client.sync_if_empty
    trust_local,       \* Client.trust_local
    pc,                \* position of each instance inside get / sync
    op,                \* the public method the caller invoked
    expected,          \* sync's argument, Option<u64>
    stored,            \* local `stored`: Option<Collection>
    remote_timestamp,  \* local `remote_timestamp`
    collection,        \* local `collection` built after the merge
    result,            \* what the last call returned to its caller
    log,               \* collaborator calls made by the current / last call
    storage_at_call,   \* value of `storage` when the current / last call began
    last_synced,       \* with a retaining storage: the Collection the call before the
                       \* current one returned, if it was a sync that succeeded
    merge_local,       \* merge_changes on its own: argument `local_records`
    merge_remote,      \* merge_changes on its own: argument `remote_changes`
    merge_result,      \* merge_changes(merge_local, merge_remote)
    merge_again_result \* merge_changes(merge_result, merge_remote)

vars == <<storage, storage_type, sync_if_empty, trust_local, pc, op, expected, stored,
          remote_timestamp, collection, result, log, storage_at_call, last_synced,
          merge_local, merge_remote, merge_result, merge_again_result>>
merge_vars == <<merge_local, merge_remote, merge_result, merge_again_result>>
config == <<storage_type, sync_if_empty, trust_local>>

\* Result<_, ClientError> seen by the caller.
NoResult == [tag |-> "None", records |-> None, collection |-> None, error |-> None]
OkRecords(rs) == [tag |-> "Ok", records |-> Some(rs), collection |-> None, error |-> None]
OkCollection(col) == [tag |-> "Ok", records |-> None, collection |-> Some(col), error |-> None]
Err(e) == [tag |-> "Err", records |-> None, collection |-> None, error |-> Some(e)]
Panicked == [tag |-> "Panic", records |-> None, collection |-> None, error |-> None]

\* One collaborator call.
\* `coll`: the Collection verified or stored; `expected`, `since`: the
\* arguments of get_changeset (for the timestamp query, `expected` is its
\* answer); `response`: the changeset returned; `ok`: the call succeeded.
\* `error`: the collaborator's own error when the call failed.
Event(ev, coll, exp, since, response, ok) ==
    [ev |-> ev, coll |-> coll, expected |-> exp, since |-> since, response |-> response,
     ok |-> ok, error |-> None]
RetrieveEvent(ok) == Event("retrieve", None, None, None, None, ok)
TimestampEvent(ts, ok) == Event("timestamp", None, ts, None, None, ok)
VerifyEvent(coll, ok) == Event("verify", Some(coll), None, None, None, ok)
ChangesetEvent(exp, since, response, ok) == Event("changeset", None, Some(exp), since, response, ok)
StoreEvent(coll, ok) == Event("store", Some(coll), None, None, None, ok)

\* What merge_changes returned: nothing yet, a Vec<Record>, or a panic.
NotMerged == [tag |-> "None", records |-> <<>>]
Merged(records) == [tag |-> "Ok", records |-> records]
MergePanicked == [tag |-> "Panic", records |-> <<>>]

\* No call has been made on any instance.
InstancesIdle ==
    /\ pc = [c \in Clients |-> "idle"]
    /\ op = [c \in Clients |-> "none"]
    /\ expected = [c \in Clients |-> None]
    /\ stored = [c \in Clients |-> None]
    /\ remote_timestamp = [c \in Clients |-> None]
    /\ collection = [c \in Clients |-> None]
    /\ result = [c \in Clients |-> NoResult]
    /\ log = [c \in Clients |-> <<>>]
    /\ storage_at_call = [c \in Clients |-> None]
    /\ last_synced = [c \in Clients |-> None]

Init ==
    /\ storage \in InitialStorage
    /\ storage_type \in StorageTypes
    /\ sync_if_empty \in BOOLEAN
    /\ trust_local \in BOOLEAN
    /\ InstancesIdle
    /\ merge_local = <<>>
    /\ merge_remote = <<>>
    /\ merge_result = NotMerged
    /\ merge_again_result = NotMerged

\* A load that makes an empty Collection of a failed retrieve.
LoadLocal_FailureYieldsEmptyCollection(outcome) ==
    IF outcome.ok
    THEN Decode(IF IsSome(Unwrap(outcome.value)) THEN Unwrap(Unwrap(outcome.value))
                ELSE EmptyBytes)
    ELSE Some(MkCollection(bucket_name, collection_name, EmptyMetadata, <<>>, 0))

\* let stored_bytes = retrieve(..).unwrap_or(None).unwrap_or_else(Vec::new);
\* let stored = serde_json::from_slice(&stored_bytes).unwrap_or(None);
LoadLocal(outcome) ==
    LET held == IF outcome.ok THEN Unwrap(outcome.value) ELSE None
        stored_bytes == IF IsSome(held) THEN Unwrap(held) ELSE EmptyBytes
    IN  Decode(stored_bytes)

\* A caller invokes `method` on instance c.
Call(c, method, arg) ==
    /\ op' = [op EXCEPT ![c] = method]
    /\ expected' = [expected EXCEPT ![c] = arg]
    /\ pc' = [pc EXCEPT ![c] = IF method = "get" THEN "get_retrieve" ELSE "sync_retrieve"]
    /\ stored' = [stored EXCEPT ![c] = None]
    /\ remote_timestamp' = [remote_timestamp EXCEPT ![c] = None]
    /\ collection' = [collection EXCEPT ![c] = None]
    /\ result' = [result EXCEPT ![c] = NoResult]
    /\ log' = [log EXCEPT ![c] = <<>>]
    /\ storage_at_call' = [storage_at_call EXCEPT ![c] = storage]
    /\ last_synced' = [last_synced EXCEPT ![c] =
                          IF /\ op[c] = "sync"
                             /\ result[c].tag = "Ok"
                             /\ storage_type # "DummyStorage"
                          THEN result[c].collection ELSE None]
    /\ UNCHANGED <<storage, config, merge_vars>>

\* GetOfSync written as `self.sync(None)?; Ok(Vec::new())`.
GetOfSync_ReturnsEmpty(r) ==
    IF r.tag = "Ok" THEN OkRecords(<<>>) ELSE r

\* What get makes of the result of its inner self.sync(None)?
\*   let collection = self.sync(None)?; return Ok(collection.records);
GetOfSync(r) ==
    IF r.tag = "Ok" THEN OkRecords(Unwrap(r.collection).records) ELSE r

\* The public call of instance c returns r from get's own code.
Return(c, r) ==
    /\ pc' = [pc EXCEPT ![c] = "idle"]
    /\ result' = [result EXCEPT ![c] = r]
    /\ stored' = [stored EXCEPT ![c] = None]
    /\ remote_timestamp' = [remote_timestamp EXCEPT ![c] = None]
    /\ collection' = [collection EXCEPT ![c] = None]
    /\ UNCHANGED <<op, expected, storage_at_call, config, last_synced, merge_vars>>

\* sync returns r: to the caller, or to the get that called it.
SyncReturn(c, r) == Return(c, IF op[c] = "get" THEN GetOfSync(r) ELSE r)

Logged(c, e) == log' = [log EXCEPT ![c] = Append(@, e)]
\* The call e ended with `outcome`.
LoggedOutcome(c, e, outcome) == Logged(c, [e EXCEPT !.error = outcome.error])

\* ------------------------------------------------------------- Client::get
\* pub fn get(&mut self): entry.
GetCall(c) ==
    /\ pc[c] = "idle"
    /\ Call(c, "get", None)

\* GetRetrieve without the `if self.sync_if_empty` test: always synchronizes.
GetRetrieve_AlwaysSyncs(c) ==
    /\ pc[c] = "get_retrieve"
    /\ \E outcome \in RetrieveOutcomes(storage_type, storage) :
        LET local == LoadLocal(outcome)
        IN  /\ LoggedOutcome(c, RetrieveEvent(outcome.ok), outcome)
            /\ IF IsSome(local)
               THEN IF ~trust_local
                    THEN /\ pc' = [pc EXCEPT ![c] = "get_verify"]
                         /\ stored' = [stored EXCEPT ![c] = local]
                         /\ UNCHANGED <<op, expected, remote_timestamp, collection, result,
                                        storage_at_call, config, last_synced, merge_vars>>
                    ELSE Return(c, OkRecords(Unwrap(local).records))
               ELSE /\ pc' = [pc EXCEPT ![c] = "sync_retrieve"]
                    /\ expected' = [expected EXCEPT ![c] = None]
                    /\ UNCHANGED <<op, stored, remote_timestamp, collection, result,
                                   storage_at_call, config, last_synced, merge_vars>>
    /\ UNCHANGED storage

\* GetRetrieve without the `if !self.trust_local` test: always verifies.
GetRetrieve_AlwaysVerifies(c) ==
    /\ pc[c] = "get_retrieve"
    /\ \E outcome \in RetrieveOutcomes(storage_type, storage) :
        LET local == LoadLocal(outcome)
        IN  /\ LoggedOutcome(c, RetrieveEvent(outcome.ok), outcome)
            /\ IF IsSome(local)
               THEN /\ pc' = [pc EXCEPT ![c] = "get_verify"]
                    /\ stored' = [stored EXCEPT ![c] = local]
                    /\ UNCHANGED <<op, expected, remote_timestamp, collection, result,
                                   storage_at_call, config, last_synced, merge_vars>>
               ELSE IF sync_if_empty
                    THEN /\ pc' = [pc EXCEPT ![c] = "sync_retrieve"]
                         /\ expected' = [expected EXCEPT ![c] = None]
                         /\ UNCHANGED <<op, stored, remote_timestamp, collection, result,
                                        storage_at_call, config, last_synced, merge_vars>>
                    ELSE Return(c, OkRecords(<<>>))
    /\ UNCHANGED storage

\* get: load the local state and dispatch on `match stored`.
GetRetrieve(c) ==
    /\ pc[c] = "get_retrieve"
    /\ \E outcome \in RetrieveOutcomes(storage_type, storage) :
        LET local == LoadLocal(outcome)
        IN  /\ LoggedOutcome(c, RetrieveEvent(outcome.ok), outcome)
            /\ IF IsSome(local)
               THEN IF ~trust_local
                    THEN /\ pc' = [pc EXCEPT ![c] = "get_verify"]
                         /\ stored' = [stored EXCEPT ![c] = local]
                         /\ UNCHANGED <<op, expected, remote_timestamp, collection, result,
                                        storage_at_call, config, last_synced, merge_vars>>
                    ELSE Return(c, OkRecords(Unwrap(local).records))
               ELSE IF sync_if_empty
                    THEN \* self.sync(None)
                         /\ pc' = [pc EXCEPT ![c] = "sync_retrieve"]
                         /\ expected' = [expected EXCEPT ![c] = None]
                         /\ UNCHANGED <<op, stored, remote_timestamp, collection, result,
                                        storage_at_call, config, last_synced, merge_vars>>
                    ELSE Return(c, OkRecords(<<>>))
    /\ UNCHANGED storage

\* GetVerify that answers a rejected local Collection with a refresh.
GetVerify_RefreshOnFailure(c) ==
    /\ pc[c] = "get_verify"
    /\ \E outcome \in VerifyOutcomes :
        /\ LoggedOutcome(c, VerifyEvent(Unwrap(stored[c]), outcome.ok), outcome)
        /\ IF outcome.ok
           THEN Return(c, OkRecords(Unwrap(stored[c]).records))
           ELSE IF sync_if_empty
                THEN /\ pc' = [pc EXCEPT ![c] = "sync_retrieve"]
                     /\ expected' = [expected EXCEPT ![c] = None]
                     /\ stored' = [stored EXCEPT ![c] = None]
                     /\ UNCHANGED <<op, remote_timestamp, collection, result,
                                    storage_at_call, config, last_synced, merge_vars>>
                ELSE Return(c, Err(From_SignatureError(Unwrap(outcome.error))))
    /\ UNCHANGED storage

\* get: self.verifier.verify(&collection)?; Ok(collection.records)
GetVerify(c) ==
    /\ pc[c] = "get_verify"
    /\ \E outcome \in VerifyOutcomes :
        /\ LoggedOutcome(c, VerifyEvent(Unwrap(stored[c]), outcome.ok), outcome)
        /\ IF outcome.ok
           THEN Return(c, OkRecords(Unwrap(stored[c]).records))
           ELSE Return(c, Err(From_SignatureError(Unwrap(outcome.error))))
    /\ UNCHANGED storage

\* ------------------------------------------------------------ Client::sync
\* pub fn sync<T>(&mut self, expected: T): entry.
SyncCall(c) ==
    /\ pc[c] = "idle"
    /\ \E arg \in {None} \cup { Some(t) : t \in Timestamps } : Call(c, "sync", arg)

\* SyncRetrieve that asks Persistence a second time when the read failed.
SyncRetrieve_RetriesOnFailure(c) ==
    /\ pc[c] = "sync_retrieve"
    /\ \E outcome \in RetrieveOutcomes(storage_type, storage) :
        /\ log' = [log EXCEPT ![c] =
                     IF outcome.ok
                     THEN Append(@, RetrieveEvent(TRUE))
                     ELSE Append(Append(@, RetrieveEvent(FALSE)), RetrieveEvent(FALSE))]
        /\ stored' = [stored EXCEPT ![c] = LoadLocal(outcome)]
    /\ pc' = [pc EXCEPT ![c] = "sync_timestamp"]
    /\ UNCHANGED <<storage, op, expected, remote_timestamp, collection, result,
                   storage_at_call, config, last_synced, merge_vars>>

\* sync: load the local state.
SyncRetrieve(c) ==
    /\ pc[c] = "sync_retrieve"
    /\ \E outcome \in RetrieveOutcomes(storage_type, storage) :
        /\ LoggedOutcome(c, RetrieveEvent(outcome.ok), outcome)
        /\ stored' = [stored EXCEPT ![c] = LoadLocal(outcome)]
    /\ pc' = [pc EXCEPT ![c] = "sync_timestamp"]
    /\ UNCHANGED <<storage, op, expected, remote_timestamp, collection, result,
                   storage_at_call, config, last_synced, merge_vars>>

\* SyncTimestamp that queries the server whatever `expected` is.
SyncTimestamp_AlwaysQueries(c) ==
    /\ pc[c] = "sync_timestamp"
    /\ \E outcome \in TimestampOutcomes :
         /\ LoggedOutcome(c, TimestampEvent(outcome.value, outcome.ok), outcome)
         /\ IF outcome.ok
            THEN /\ remote_timestamp' = [remote_timestamp EXCEPT ![c] = outcome.value]
                 /\ pc' = [pc EXCEPT ![c] = "sync_freshness"]
                 /\ UNCHANGED <<op, expected, stored, collection, result,
                                storage_at_call, config, last_synced, merge_vars>>
            ELSE SyncReturn(c, Err(From_KintoError(Unwrap(outcome.error))))
    /\ UNCHANGED storage

\* SyncTimestamp that goes on with timestamp 0 when the query fails.
SyncTimestamp_FallsBackOnFailure(c) ==
    /\ pc[c] = "sync_timestamp"
    /\ IF IsSome(expected[c])
       THEN /\ remote_timestamp' = [remote_timestamp EXCEPT ![c] = expected[c]]
            /\ UNCHANGED log
       ELSE \E outcome \in TimestampOutcomes :
              /\ LoggedOutcome(c, TimestampEvent(outcome.value, outcome.ok), outcome)
              /\ remote_timestamp' =
                    [remote_timestamp EXCEPT ![c] = IF outcome.ok THEN outcome.value ELSE Some(0)]
    /\ pc' = [pc EXCEPT ![c] = "sync_freshness"]
    /\ UNCHANGED <<storage, op, expected, stored, collection, result, storage_at_call, config, last_synced, merge_vars>>

\* sync: let remote_timestamp = match expected.into() { Some(v) => v,
\*       None => get_latest_change_timestamp(..)? };
SyncTimestamp(c) ==
    /\ pc[c] = "sync_timestamp"
    /\ IF IsSome(expected[c])
       THEN /\ remote_timestamp' = [remote_timestamp EXCEPT ![c] = expected[c]]
            /\ pc' = [pc EXCEPT ![c] = "sync_freshness"]
            /\ UNCHANGED <<op, expected, stored, collection, result, log, storage_at_call,
                           config, last_synced, merge_vars>>
       ELSE \E outcome \in TimestampOutcomes :
              /\ LoggedOutcome(c, TimestampEvent(outcome.value, outcome.ok), outcome)
              /\ IF outcome.ok
                 THEN /\ remote_timestamp' = [remote_timestamp EXCEPT ![c] = outcome.value]
                      /\ pc' = [pc EXCEPT ![c] = "sync_freshness"]
                      /\ UNCHANGED <<op, expected, stored, collection, result,
                                     storage_at_call, config, last_synced, merge_vars>>
                 ELSE SyncReturn(c, Err(From_KintoError(Unwrap(outcome.error))))
    /\ UNCHANGED storage

\* SyncFreshness that does not compare timestamps: an accepted local
\* Collection is returned whatever the target is.
SyncFreshness_IgnoresTimestamp(c) ==
    /\ pc[c] = "sync_freshness"
    /\ LET fall_through ==
             /\ pc' = [pc EXCEPT ![c] = "sync_fetch"]
             /\ UNCHANGED <<op, expected, stored, remote_timestamp, collection, result,
                            storage_at_call, config, last_synced, merge_vars>>
       IN  IF IsSome(stored[c])
           THEN \E outcome \in VerifyOutcomes :
                  /\ LoggedOutcome(c, VerifyEvent(Unwrap(stored[c]), outcome.ok), outcome)
                  /\ IF outcome.ok
                     THEN SyncReturn(c, OkCollection(Unwrap(stored[c])))
                     ELSE fall_through
           ELSE /\ fall_through
                /\ UNCHANGED log
    /\ UNCHANGED storage

\* SyncFreshness that returns the verifier's error (verify(..)? instead of is_ok()).
SyncFreshness_ReturnsVerifyError(c) ==
    /\ pc[c] = "sync_freshness"
    /\ IF IsSome(stored[c])
          /\ Unwrap(stored[c]).timestamp = Unwrap(remote_timestamp[c])
       THEN \E outcome \in VerifyOutcomes :
              /\ LoggedOutcome(c, VerifyEvent(Unwrap(stored[c]), outcome.ok), outcome)
              /\ IF outcome.ok
                 THEN SyncReturn(c, OkCollection(Unwrap(stored[c])))
                 ELSE SyncReturn(c, Err(From_SignatureError(Unwrap(outcome.error))))
       ELSE /\ pc' = [pc EXCEPT ![c] = "sync_fetch"]
            /\ UNCHANGED <<op, expected, stored, remote_timestamp, collection, result,
                           storage_at_call, config, last_synced, merge_vars, log>>
    /\ UNCHANGED storage

\* SyncFreshness that verifies the local Collection but never returns it.
SyncFreshness_NeverShortCircuits(c) ==
    /\ pc[c] = "sync_freshness"
    /\ pc' = [pc EXCEPT ![c] = "sync_fetch"]
    /\ IF IsSome(stored[c])
          /\ Unwrap(stored[c]).timestamp = Unwrap(remote_timestamp[c])
       THEN \E outcome \in VerifyOutcomes :
              LoggedOutcome(c, VerifyEvent(Unwrap(stored[c]), outcome.ok), outcome)
       ELSE UNCHANGED log
    /\ UNCHANGED <<storage, op, expected, stored, remote_timestamp, collection, result,
                   storage_at_call, config, last_synced, merge_vars>>

\* sync: if let Some(ref collection) = stored { up_to_date && verify.is_ok() => return }
SyncFreshness(c) ==
    /\ pc[c] = "sync_freshness"
    /\ LET fall_through ==
             /\ pc' = [pc EXCEPT ![c] = "sync_fetch"]
             /\ UNCHANGED <<op, expected, stored, remote_timestamp, collection, result,
                            storage_at_call, config, last_synced, merge_vars>>
       IN  IF IsSome(stored[c])
              /\ Unwrap(stored[c]).timestamp = Unwrap(remote_timestamp[c])
           THEN \E outcome \in VerifyOutcomes :
                  /\ LoggedOutcome(c, VerifyEvent(Unwrap(stored[c]), outcome.ok), outcome)
                  /\ IF outcome.ok
                     THEN SyncReturn(c, OkCollection(Unwrap(stored[c])))
                     ELSE fall_through
           ELSE /\ fall_through
                /\ UNCHANGED log
    /\ UNCHANGED storage

\* SyncFetch that treats a local Collection the verifier rejected as absent.
SyncFetch_DropsRejectedLocal(c) ==
    /\ pc[c] = "sync_fetch"
    /\ LET rejected == /\ Len(log[c]) > 0
                       /\ log[c][Len(log[c])].ev = "verify"
                       /\ ~log[c][Len(log[c])].ok
           kept == IsSome(stored[c]) /\ ~rejected
           local_records == IF kept THEN Unwrap(stored[c]).records ELSE <<>>
           local_timestamp == IF kept THEN Some(Unwrap(stored[c]).timestamp) ELSE None
       IN  \E outcome \in ChangesetOutcomes :
             /\ LoggedOutcome(c, ChangesetEvent(Unwrap(remote_timestamp[c]), local_timestamp,
                                         outcome.value, outcome.ok), outcome)
             /\ IF ~outcome.ok
                THEN SyncReturn(c, Err(From_KintoError(Unwrap(outcome.error))))
                ELSE LET changeset == Unwrap(outcome.value)
                     IN  IF merge_changes_panics(local_records, changeset.changes)
                         THEN Return(c, Panicked)
                         ELSE \E merged \in merge_changes(local_records, changeset.changes) :
                                /\ collection' =
                                     [collection EXCEPT ![c] =
                                        Some(MkCollection(bucket_name, collection_name,
                                                          changeset.metadata, merged,
                                                          changeset.timestamp))]
                                /\ pc' = [pc EXCEPT ![c] = "sync_verify"]
                                /\ UNCHANGED <<op, expected, stored, remote_timestamp, result,
                                               storage_at_call, config, last_synced, merge_vars>>
    /\ UNCHANGED storage

\* sync: (local_records, local_timestamp), get_changeset(..)?, merge_changes,
\* and the new Collection.
SyncFetch(c) ==
    /\ pc[c] = "sync_fetch"
    /\ LET local_records == IF IsSome(stored[c]) THEN Unwrap(stored[c]).records ELSE <<>>
           local_timestamp ==
               IF IsSome(stored[c]) THEN Some(Unwrap(stored[c]).timestamp) ELSE None
       IN  \E outcome \in ChangesetOutcomes :
             /\ LoggedOutcome(c, ChangesetEvent(Unwrap(remote_timestamp[c]), local_timestamp,
                                         outcome.value, outcome.ok), outcome)
             /\ IF ~outcome.ok
                THEN SyncReturn(c, Err(From_KintoError(Unwrap(outcome.error))))
                ELSE LET changeset == Unwrap(outcome.value)
                     IN  IF merge_changes_panics(local_records, changeset.changes)
                         THEN Return(c, Panicked)
                         ELSE \E merged \in merge_changes(local_records, changeset.changes) :
                                /\ collection' =
                                     [collection EXCEPT ![c] =
                                        Some(MkCollection(bucket_name, collection_name,
                                                          changeset.metadata, merged,
                                                          changeset.timestamp))]
                                /\ pc' = [pc EXCEPT ![c] = "sync_verify"]
                                /\ UNCHANGED <<op, expected, stored, remote_timestamp, result,
                                               storage_at_call, config, last_synced, merge_vars>>
    /\ UNCHANGED storage

\* SyncVerify with the `?` dropped: the verifier's answer is ignored.
SyncVerify_IgnoresFailure(c) ==
    /\ pc[c] = "sync_verify"
    /\ \E outcome \in VerifyOutcomes :
        /\ LoggedOutcome(c, VerifyEvent(Unwrap(collection[c]), outcome.ok), outcome)
        /\ pc' = [pc EXCEPT ![c] = "sync_store"]
        /\ UNCHANGED <<op, expected, stored, remote_timestamp, collection, result,
                       storage_at_call, config, last_synced, merge_vars>>
    /\ UNCHANGED storage

\* SyncVerify with the store moved before the verification.
SyncVerify_StoresFirst(c) ==
    /\ pc[c] = "sync_verify"
    /\ \E outcome \in VerifyOutcomes :
        /\ LoggedOutcome(c, VerifyEvent(Unwrap(collection[c]), outcome.ok), outcome)
        /\ storage' = IF storage_type = "FileStorage"
                      THEN Some(Encode(Unwrap(collection[c]))) ELSE storage
        /\ IF outcome.ok
           THEN /\ pc' = [pc EXCEPT ![c] = "sync_store"]
                /\ UNCHANGED <<op, expected, stored, remote_timestamp, collection, result,
                               storage_at_call, config, last_synced, merge_vars>>
           ELSE SyncReturn(c, Err(From_SignatureError(Unwrap(outcome.error))))

\* sync: self.verifier.verify(&collection)?;
SyncVerify(c) ==
    /\ pc[c] = "sync_verify"
    /\ \E outcome \in VerifyOutcomes :
        /\ LoggedOutcome(c, VerifyEvent(Unwrap(collection[c]), outcome.ok), outcome)
        /\ IF outcome.ok
           THEN /\ pc' = [pc EXCEPT ![c] = "sync_store"]
                /\ UNCHANGED <<op, expected, stored, remote_timestamp, collection, result,
                               storage_at_call, config, last_synced, merge_vars>>
           ELSE SyncReturn(c, Err(From_SignatureError(Unwrap(outcome.error))))
    /\ UNCHANGED storage

\* SyncStore written as `let _ = self.storage.store(..);`: a failed store
\* still returns the Collection.
SyncStore_ReturnsCollectionOnFailure(c) ==
    /\ pc[c] = "sync_store"
    /\ \E encoded \in EncodeOutcomes(Unwrap(collection[c])) :
        IF ~encoded.ok
        THEN /\ SyncReturn(c, Err(From_SerdeError(Unwrap(encoded.error))))
             /\ UNCHANGED <<storage, log>>
        ELSE \E outcome \in StoreOutcomes(storage_type) :
               /\ LoggedOutcome(c, StoreEvent(Unwrap(collection[c]), outcome.ok), outcome)
               /\ storage' = StorageAfterStore(storage_type, storage,
                                               Unwrap(encoded.value), outcome)
               /\ SyncReturn(c, OkCollection(Unwrap(collection[c])))

\* sync: let collection_bytes = serde_json::to_string(&collection)?.into();
\*       self.storage.store(&storage_key, collection_bytes)?; Ok(collection)
SyncStore(c) ==
    /\ pc[c] = "sync_store"
    /\ \E encoded \in EncodeOutcomes(Unwrap(collection[c])) :
        IF ~encoded.ok
        THEN /\ SyncReturn(c, Err(From_SerdeError(Unwrap(encoded.error))))
             /\ UNCHANGED <<storage, log>>
        ELSE \E outcome \in StoreOutcomes(storage_type) :
               /\ LoggedOutcome(c, StoreEvent(Unwrap(collection[c]), outcome.ok), outcome)
               /\ storage' = StorageAfterStore(storage_type, storage,
                                               Unwrap(encoded.value), outcome)
               /\ IF outcome.ok
                  THEN SyncReturn(c, OkCollection(Unwrap(collection[c])))
                  ELSE SyncReturn(c, Err(From_StorageError(Unwrap(outcome.error))))

\* ------------------------------------------------------------ specification
\* The caller's instance in the sequential runs (calls run to completion).
Caller == "c1"

Next ==
    \/ GetCall(Caller)
    \/ GetRetrieve(Caller)
    \/ GetVerify(Caller)
    \/ SyncCall(Caller)
    \/ SyncRetrieve(Caller)
    \/ SyncTimestamp(Caller)
    \/ SyncFreshness(Caller)
    \/ SyncFetch(Caller)
    \/ SyncVerify(Caller)
    \/ SyncStore(Caller)

Spec == Init /\ [][Next]_vars

\* The runs in which the caller only ever calls get (sync runs only as the
\* fallback inside get).
NextGets ==
    \/ GetCall(Caller)
    \/ GetRetrieve(Caller)
    \/ GetVerify(Caller)
    \/ SyncRetrieve(Caller)
    \/ SyncTimestamp(Caller)
    \/ SyncFreshness(Caller)
    \/ SyncFetch(Caller)
    \/ SyncVerify(Caller)
    \/ SyncStore(Caller)

SpecGets == Init /\ [][NextGets]_vars

\* ------------------------------------------- merge_changes on its own inputs
MergeIds == {"a", "b"}
\* Records of a local Collection.
LocalRecords == { MkRecord(Some(i), Some(t), None) : i \in MergeIds, t \in {0, 1} }
\* Change entries: content (no "deleted" member, or one that is not a
\* boolean), tombstones, and an entry without id.
MergeEntries ==
    { MkRecord(Some(i), Some(t), d) : i \in MergeIds, t \in {1, 2}, d \in {None, Some("\"foo\"")} }
        \cup { MkRecord(Some(i), Some(2), Some("true")) : i \in MergeIds }
        \cup {EntryWithoutId}

InitMerge ==
    /\ storage = None
    /\ storage_type = "DummyStorage"
    /\ sync_if_empty = TRUE
    /\ trust_local = FALSE
    /\ InstancesIdle
    /\ merge_local \in SeqsUpTo(LocalRecords, MaxLocal)
    /\ merge_remote \in SeqsUpTo(MergeEntries, MaxMergeChanges)
    /\ merge_result = NotMerged
    /\ merge_again_result = NotMerged

\* merge_changes(local_records, remote_changes)
MergeChanges ==
    /\ merge_result = NotMerged
    /\ IF merge_changes_panics(merge_local, merge_remote)
       THEN merge_result' = MergePanicked
       ELSE \E records \in merge_changes(merge_local, merge_remote) :
              merge_result' = Merged(records)
    /\ UNCHANGED <<merge_local, merge_remote, merge_again_result>>
    /\ UNCHANGED <<storage, config, pc, op, expected, stored, remote_timestamp, collection,
                   result, log, storage_at_call, last_synced>>

\* merge_changes of the result and the same changes once more.
MergeAgain ==
    /\ merge_result.tag = "Ok"
    /\ merge_again_result = NotMerged
    /\ IF merge_changes_panics(merge_result.records, merge_remote)
       THEN merge_again_result' = MergePanicked
       ELSE \E records \in merge_changes(merge_result.records, merge_remote) :
              merge_again_result' = Merged(records)
    /\ UNCHANGED <<merge_local, merge_remote, merge_result>>
    /\ UNCHANGED <<storage, config, pc, op, expected, stored, remote_timestamp, collection,
                   result, log, storage_at_call, last_synced>>

NextMerge ==
    \/ MergeChanges
    \/ MergeAgain

SpecMerge == InitMerge /\ [][NextMerge]_vars

\* ------------------------------------- two instances on one Persistence key
\* Longest change list the remote source sends in the concurrent runs.
MaxConcurrentChanges == 1

\* Two Clients built on the same retaining storage and the same key.
InitConcurrent ==
    /\ storage \in InitialStorage
    /\ storage_type = "FileStorage"
    /\ sync_if_empty = TRUE
    /\ trust_local = FALSE
    /\ InstancesIdle
    /\ merge_local = <<>>
    /\ merge_remote = <<>>
    /\ merge_result = NotMerged
    /\ merge_again_result = NotMerged

\* The timestamp the remote source is at in the concurrent runs, and the
\* arguments the two callers pass.
ConcurrentRemoteTimestamp == 2
ConcurrentArguments == {None, Some(1)}

\* The one sync call of instance c.
SyncCallOnce(c) ==
    /\ op[c] = "none"
    /\ SyncCall(c)
    /\ expected'[c] \in ConcurrentArguments

\* The answers the collaborators give in the concurrent runs: one failure
\* per collaborator, the remote timestamp ConcurrentRemoteTimestamp, change
\* lists of at most MaxConcurrentChanges entries.
ConcurrentErrorKinds == {"ReadError", "Error", "InvalidSignature", "ServerError"}
ConcurrentAnswer(c) ==
    Len(log[c]) > 0 =>
        LET e == log[c][Len(log[c])]
        IN  /\ IsSome(e.error) => Unwrap(e.error).kind \in ConcurrentErrorKinds
            /\ (e.ev = "timestamp" /\ e.ok) => e.expected = Some(ConcurrentRemoteTimestamp)
            /\ IsSome(e.response) =>
                  /\ Len(Unwrap(e.response).changes) <= MaxConcurrentChanges
                  /\ Unwrap(e.response).timestamp = ConcurrentRemoteTimestamp

ConcurrentSyncTimestamp(c) == SyncTimestamp(c) /\ ConcurrentAnswer(c)'
ConcurrentSyncFreshness(c) == SyncFreshness(c) /\ ConcurrentAnswer(c)'
ConcurrentSyncFetch(c) == SyncFetch(c) /\ ConcurrentAnswer(c)'
ConcurrentSyncVerify(c) == SyncVerify(c) /\ ConcurrentAnswer(c)'

\* Any interleaving of the steps of the two calls; each step (retrieve,
\* remote call, verify, store) is atomic.
NextConcurrent ==
    \/ \E c \in Clients : SyncCallOnce(c)
    \/ \E c \in Clients : SyncRetrieve(c)
    \/ \E c \in Clients : ConcurrentSyncTimestamp(c)
    \/ \E c \in Clients : ConcurrentSyncFreshness(c)
    \/ \E c \in Clients : ConcurrentSyncFetch(c)
    \/ \E c \in Clients : ConcurrentSyncVerify(c)
    \/ \E c \in Clients : SyncStore(c)

SpecConcurrent == InitConcurrent /\ [][NextConcurrent]_vars

TypeOK ==
    /\ storage_type \in StorageTypes
    /\ \A c \in Clients :
         /\ pc[c] \in {"idle", "get_retrieve", "get_verify", "sync_retrieve", "sync_timestamp",
                       "sync_freshness", "sync_fetch", "sync_verify", "sync_store"}
         /\ result[c].tag \in {"None", "Ok", "Err", "Panic"}

\* ------------------------------------------------------- reading the log
Events(c, ev) == { i \in 1 .. Len(log[c]) : log[c][i].ev = ev }
Count(c, ev) == Cardinality(Events(c, ev))
LastIs(c, e) == Len(log[c]) > 0 /\ log[c][Len(log[c])] = e
\* The call of instance c has returned to its caller.
Returned(c) == pc[c] = "idle" /\ op[c] # "none"
\* The verifier was asked about a freshly merged Collection (the verify call
\* that follows the changeset fetch) and answered `ok`.
MergedVerified(c, i, ok) ==
    /\ i \in Events(c, "verify")
    /\ i > 1
    /\ log[c][i - 1].ev = "changeset"
    /\ log[c][i].ok = ok

\* ------------------------------------------------------------------- C1
\* C1: Persistence only ever changes by sync storing the encoding of the
\* Collection it built, and the verifier accepted that very Collection
\* earlier in the same call.
C1_OnlyVerifiedCollectionsAreWritten ==
    [][storage' # storage =>
         \E c \in Clients :
            /\ pc[c] = "sync_store"
            /\ storage' = Some(Encode(Unwrap(collection[c])))
            /\ \E i \in 1 .. Len(log[c]) : log[c][i] = VerifyEvent(Unwrap(collection[c]), TRUE)]_vars

\* A sync has returned after replacing the stored value.
C1_Witness ==
    /\ Returned(Caller)
    /\ result[Caller].tag = "Ok"
    /\ storage # storage_at_call[Caller]
    /\ IsSome(storage_at_call[Caller])

\* ------------------------------------------------------------------- C2
\* C2: when the verifier rejects the freshly merged Collection, the call
\* returns a VerificationError, that verifier call is the last collaborator
\* call (no store, no retry, no further remote call), and Persistence holds
\* what it held when the call started.
C2_FailedVerificationIsFatalAndWritesNothing ==
    \A c \in Clients :
        (Returned(c) /\ \E i \in 1 .. Len(log[c]) : MergedVerified(c, i, FALSE)) =>
            /\ result[c].tag = "Err"
            /\ Unwrap(result[c].error).type = "VerificationError"
            /\ MergedVerified(c, Len(log[c]), FALSE)
            /\ Count(c, "store") = 0
            /\ Count(c, "changeset") = 1
            /\ storage = storage_at_call[c]

\* A sync over an existing local Collection ended in a rejected merge.
C2_Witness ==
    /\ Returned(Caller)
    /\ op[Caller] = "sync"
    /\ MergedVerified(Caller, Len(log[Caller]), FALSE)
    /\ IsSome(storage_at_call[Caller])
    /\ storage_type = "FileStorage"

\* ------------------------------------------------------------------- C3
\* The store of the verified Collection was attempted and failed.
StoreFailed(c) ==
    /\ Len(log[c]) > 0
    /\ log[c][Len(log[c])].ev = "store"
    /\ ~log[c][Len(log[c])].ok

\* C3 as stated: a sync whose final store fails still returns the verified
\* Collection as its result.
C3_Original_StoreFailureStillReturnsCollection ==
    \A c \in Clients :
        (Returned(c) /\ op[c] = "sync" /\ StoreFailed(c)) =>
            result[c] = OkCollection(Unwrap(log[c][Len(log[c])].coll))

\* C3 amended: a call whose final store fails returns an error and hands the
\* caller neither the verified Collection nor its records; Persistence keeps
\* the value it had.
C3_StoreFailureReturnsNoCollection ==
    \A c \in Clients :
        (Returned(c) /\ StoreFailed(c)) =>
            /\ result[c].tag = "Err"
            /\ IsNone(result[c].collection)
            /\ IsNone(result[c].records)
            /\ storage = storage_at_call[c]

\* A sync verified its merge and then failed to store it.
C3_Witness ==
    /\ Returned(Caller)
    /\ op[Caller] = "sync"
    /\ StoreFailed(Caller)
    /\ MergedVerified(Caller, Len(log[Caller]) - 1, TRUE)

\* ------------------------------------------------------------------- C4
\* The merged Collection was accepted and sync returned without calling
\* store: the encoding failed.
EncodeFailed(c) == Len(log[c]) > 0 /\ MergedVerified(c, Len(log[c]), TRUE)

\* C4: when the final store fails, or the encoding of the new Collection
\* fails, the call reports a StorageError (not a VerificationError, not an
\* APIError, not a success).
C4_PersistFailureIsStorageError ==
    \A c \in Clients :
        (Returned(c) /\ (StoreFailed(c) \/ EncodeFailed(c))) =>
            /\ result[c].tag = "Err"
            /\ Unwrap(result[c].error).type = "StorageError"

\* The storage's write error reached the caller of sync.
C4_Witness ==
    /\ Returned(Caller)
    /\ StoreFailed(Caller)
    /\ result[Caller] = Err(ClientError("StorageError", Name("storage write error"), None))

\* ------------------------------------------------------------------- C5
\* The local Collection found by the load that is the i-th collaborator call
\* of the current call: what LoadLocal makes of the retrieve outcome the log
\* records, on the value Persistence held when the call began (no store of
\* the call precedes its loads).
LoadedAt(c, i) ==
    IF Len(log[c]) >= i /\ log[c][i].ev = "retrieve"
    THEN LET found == { LoadLocal(o) : o \in { x \in RetrieveOutcomes(storage_type,
                                                                      storage_at_call[c]) :
                                                 x.ok = log[c][i].ok } }
         IN  CHOOSE l \in found : TRUE
    ELSE None
\* The local Collection the first load of the call found.
FoundLocal(c) == LoadedAt(c, 1)

\* The target timestamp of a public sync: its argument, else the answer of
\* the timestamp query.
Target(c) ==
    IF IsSome(expected[c]) THEN expected[c]
    ELSE IF Len(log[c]) > 1 /\ log[c][2].ev = "timestamp" /\ log[c][2].ok
         THEN log[c][2].expected
         ELSE None

\* The verifier accepted `local` in the freshness check (a verifier call
\* that does not follow a changeset fetch).
FreshnessAccepted(c, local) ==
    \E i \in 2 .. Len(log[c]) :
        /\ log[c][i] = VerifyEvent(local, TRUE)
        /\ log[c][i - 1].ev # "changeset"

\* C5: a sync that finds a decodable local Collection whose timestamp is the
\* target timestamp and that the verifier accepts returns that Collection,
\* fetches no changeset and stores nothing.
C5_FreshnessShortCircuit ==
    \A c \in Clients :
        (/\ Returned(c)
         /\ op[c] = "sync"
         /\ IsSome(FoundLocal(c))
         /\ IsSome(Target(c))
         /\ Unwrap(FoundLocal(c)).timestamp = Unwrap(Target(c))
         /\ FreshnessAccepted(c, Unwrap(FoundLocal(c)))) =>
            /\ result[c] = OkCollection(Unwrap(FoundLocal(c)))
            /\ Count(c, "changeset") = 0
            /\ Count(c, "store") = 0
            /\ storage = storage_at_call[c]

\* sync(None) found the local Collection fresh and valid.
C5_Witness ==
    /\ Returned(Caller)
    /\ op[Caller] = "sync"
    /\ IsNone(expected[Caller])
    /\ IsSome(FoundLocal(Caller))
    /\ FreshnessAccepted(Caller, Unwrap(FoundLocal(Caller)))
    /\ result[Caller].tag = "Ok"

\* ------------------------------------------------------------------- C6
\* C6: a get that finds a decodable local Collection with trust_local false
\* calls the verifier on it and nothing else; accepted, it returns the cached
\* records; rejected, it returns a VerificationError and no records, without
\* timestamp query, changeset fetch or store, whatever sync_if_empty is.
C6_UntrustedGetVerifiesAndNeverRefreshes ==
    \A c \in Clients :
        (Returned(c) /\ op[c] = "get" /\ IsSome(FoundLocal(c)) /\ ~trust_local) =>
            /\ Len(log[c]) = 2
            /\ log[c][2].ev = "verify"
            /\ log[c][2].coll = FoundLocal(c)
            /\ log[c][2].ok => result[c] = OkRecords(Unwrap(FoundLocal(c)).records)
            /\ ~log[c][2].ok =>
                 /\ result[c].tag = "Err"
                 /\ Unwrap(result[c].error).type = "VerificationError"
                 /\ IsNone(result[c].records)
            /\ storage = storage_at_call[c]

\* get rejected the cached Collection although sync_if_empty is set.
C6_Witness ==
    /\ Returned(Caller)
    /\ op[Caller] = "get"
    /\ ~trust_local
    /\ sync_if_empty
    /\ IsSome(FoundLocal(Caller))
    /\ result[Caller].tag = "Err"

HoldsNoDecodable == \A o \in RetrieveOutcomes(storage_type, storage) : IsNone(LoadLocal(o))

\* C8: with sync_if_empty false and nothing decodable in Persistence at the
\* start, in a run of get calls only, every get returns the empty record
\* list without error, its retrieve is its only collaborator call (no remote
\* call, no store), and Persistence still holds nothing decodable.
C8_GetWithoutSyncStaysEmpty ==
    (~sync_if_empty /\ HoldsNoDecodable) =>
        [](/\ HoldsNoDecodable
           /\ \A c \in Clients :
                Returned(c) =>
                    /\ result[c] = OkRecords(<<>>)
                    /\ Len(log[c]) = 1
                    /\ log[c][1].ev = "retrieve"
                    /\ storage = storage_at_call[c])

\* A get over malformed stored bytes returned the empty list.
C8_Witness ==
    /\ Returned(Caller)
    /\ op[Caller] = "get"
    /\ ~sync_if_empty
    /\ storage_type = "FileStorage"
    /\ storage = Some(GarbageBytes)
    /\ result[Caller] = OkRecords(<<>>)

\* ------------------------------------------------------------------- C9
\* get fell back to its inner sync: sync_if_empty is set and get's own load
\* found no decodable local state.
GetFellBack(c) == Returned(c) /\ op[c] = "get" /\ sync_if_empty /\ IsNone(FoundLocal(c))

\* The records a changeset carries: for each id its first entry in received
\* order, unless that entry is a tombstone.
ContentOf(changes) ==
    { changes[i] : i \in { k \in 1 .. Len(changes) :
                             /\ changes[k].deleted # Some("true")
                             /\ \A j \in 1 .. k - 1 : changes[j].id # changes[k].id } }
Range(s) == { s[i] : i \in 1 .. Len(s) }

\* The fetched changeset records were returned by get.
ReturnsFetchedRecords(c, i) ==
    /\ result[c].tag = "Ok"
    /\ IsSome(result[c].records)
    /\ Range(Unwrap(result[c].records)) = ContentOf(Unwrap(log[c][i].response).changes)
    /\ Len(Unwrap(result[c].records)) = Cardinality(ContentOf(Unwrap(log[c][i].response).changes))

\* C9 as stated: the falling-back get performs exactly one timestamp query
\* followed by exactly one changeset fetch, and returns the fetched records
\* when these and verification succeed.
C9_Original_ExactlyOneQueryAndOneFetch ==
    \A c \in Clients :
        GetFellBack(c) =>
            /\ Count(c, "timestamp") = 1
            /\ Count(c, "changeset") = 1
            /\ \A i \in Events(c, "timestamp"), j \in Events(c, "changeset") :
                 /\ i < j
                 /\ (log[c][i].ok /\ log[c][j].ok
                        /\ \E k \in 1 .. Len(log[c]) : MergedVerified(c, k, TRUE)) =>
                       ReturnsFetchedRecords(c, j)

\* C9 amended: the falling-back get performs exactly one timestamp query (its
\* third collaborator call, after get's and sync's loads) and at most one
\* changeset fetch; when the query succeeds and sync's own load finds no
\* local Collection either, exactly one fetch follows, with the queried
\* timestamp as expected value and no since cursor; when the fetch succeeds,
\* every entry has an id, the verifier accepts and the store succeeds, get
\* returns the records of the fetched changeset.  With DummyStorage every
\* get call with sync_if_empty falls back in this way.
C9_GetFallsBackToOneQueryThenOneFetch ==
    \A c \in Clients :
        /\ GetFellBack(c) =>
            /\ Len(log[c]) >= 3
            /\ log[c][2].ev = "retrieve"
            /\ log[c][3].ev = "timestamp"
            /\ Count(c, "timestamp") = 1
            /\ Count(c, "changeset") <= 1
            /\ (log[c][3].ok /\ IsNone(LoadedAt(c, 2))) =>
                 /\ Len(log[c]) >= 4
                 /\ log[c][4].ev = "changeset"
                 /\ log[c][4].expected = log[c][3].expected
                 /\ log[c][4].since = None
                 /\ Count(c, "changeset") = 1
                 /\ (/\ log[c][4].ok
                     /\ ~merge_changes_panics(<<>>, Unwrap(log[c][4].response).changes)
                     /\ Len(log[c]) = 6
                     /\ MergedVerified(c, 5, TRUE)
                     /\ log[c][6].ev = "store"
                     /\ log[c][6].ok) =>
                       ReturnsFetchedRecords(c, 4)
        /\ (Returned(c) /\ op[c] = "get" /\ sync_if_empty /\ storage_type = "DummyStorage") =>
             /\ GetFellBack(c)
             /\ IsNone(LoadedAt(c, 2))

\* With DummyStorage a get after an earlier get has again queried, fetched
\* and returned the fetched record.
C9_Witness ==
    /\ GetFellBack(Caller)
    /\ storage_type = "DummyStorage"
    /\ Len(log[Caller]) = 6
    /\ ReturnsFetchedRecords(Caller, 4)
    /\ Len(Unwrap(result[Caller].records)) = 1

\* ------------------------------------------------------------------ C10
\* C10: in sync(None) every changeset fetch comes after a successful
\* timestamp query and carries the queried timestamp as its expected value;
\* in sync(Some(t)) there is no timestamp query and every changeset fetch
\* carries t.
C10_TimestampQueryPrecedesFetch ==
    \A c \in Clients :
        /\ IsSome(expected[c]) =>
             /\ Count(c, "timestamp") = 0
             /\ \A j \in Events(c, "changeset") : log[c][j].expected = expected[c]
        /\ IsNone(expected[c]) =>
             \A j \in Events(c, "changeset") :
                \E i \in Events(c, "timestamp") :
                    /\ i < j
                    /\ log[c][i].ok
                    /\ log[c][i].expected = log[c][j].expected

\* sync(None) has queried the timestamp and then fetched the changeset.
C10_Witness ==
    /\ op[Caller] = "sync"
    /\ IsNone(expected[Caller])
    /\ Count(Caller, "timestamp") = 1
    /\ Count(Caller, "changeset") = 1
    /\ IsSome(storage_at_call[Caller])

\* ------------------------------------------------------------------ C11
\* The timestamp query of the call failed.
TimestampQueryFailed(c) == \E i \in Events(c, "timestamp") : ~log[c][i].ok

\* C11: when the timestamp query of sync(None) fails, the call returns an
\* APIError and the query is its last collaborator call: no changeset fetch,
\* no verifier call, no store, Persistence unchanged.  For the unknown
\* bucket/collection case the message names the bucket and the collection
\* and there is no response payload.
C11_FailedTimestampQueryIsFatal ==
    \A c \in Clients :
        (Returned(c) /\ TimestampQueryFailed(c)) =>
            /\ ~log[c][Len(log[c])].ok
            /\ log[c][Len(log[c])].ev = "timestamp"
            /\ result[c].tag = "Err"
            /\ Unwrap(result[c].error).type = "APIError"
            /\ Unwrap(log[c][Len(log[c])].error).kind = "UnknownCollection" =>
                 /\ Unwrap(result[c].error).name =
                        <<"Unknown collection ", bucket_name, "/", collection_name>>
                 /\ Unwrap(result[c].error).response = None
            /\ Count(c, "changeset") = 0
            /\ Count(c, "verify") = 0
            /\ Count(c, "store") = 0
            /\ storage = storage_at_call[c]

\* sync(None) was told that the collection is unknown, over an existing
\* local Collection.
C11_Witness ==
    /\ Returned(Caller)
    /\ op[Caller] = "sync"
    /\ TimestampQueryFailed(Caller)
    /\ Unwrap(log[Caller][Len(log[Caller])].error).kind = "UnknownCollection"
    /\ IsSome(FoundLocal(Caller))

\* ------------------------------------------------------------------ C12
\* C12 as stated: every call of get or sync performs at most one timestamp
\* query, one changeset fetch, one Persistence retrieve and one Persistence
\* store.
C12_Original_AtMostOneOfEachPerCall ==
    \A c \in Clients :
        /\ Count(c, "timestamp") <= 1
        /\ Count(c, "changeset") <= 1
        /\ Count(c, "retrieve") <= 1
        /\ Count(c, "store") <= 1

\* C12 (amended): every call performs at most one timestamp query, one
\* changeset fetch and one store; a sync call performs at most one retrieve;
\* a get call performs at most two, and the second only when it falls back
\* to the internal sync (sync_if_empty and nothing decodable found by the
\* first), which loads the local state again.
C12_AtMostOneRemoteCallAndStorePerCall ==
    \A c \in Clients :
        /\ Count(c, "timestamp") <= 1
        /\ Count(c, "changeset") <= 1
        /\ Count(c, "store") <= 1
        /\ Count(c, "retrieve") <= 2
        /\ Count(c, "retrieve") = 2 =>
             /\ op[c] = "get"
             /\ sync_if_empty
             /\ log[c][1].ev = "retrieve"
             /\ IsNone(LoadedAt(c, 1))

\* A get fell back to the internal sync, which went through query, fetch and
\* store: two retrieves, one of each of the others.
C12_Witness ==
    /\ Returned(Caller)
    /\ op[Caller] = "get"
    /\ Count(Caller, "retrieve") = 2
    /\ Count(Caller, "timestamp") = 1
    /\ Count(Caller, "changeset") = 1
    /\ Count(Caller, "store") = 1

\* ------------------------------------------------------- reading a merge
\* merge_changes returned (no entry lacked an id).
MergeReturned == merge_result.tag = "Ok"
HasId(records, x) == \E i \in 1 .. Len(records) : records[i].id = Some(x)
\* An entry whose "deleted" member is the boolean true.
Tombstone(e) == e.deleted = Some("true")
EntriesFor(changes, x) == { i \in 1 .. Len(changes) : changes[i].id = Some(x) }
\* x's first entry in received order.
FirstFor(changes, x) ==
    CHOOSE i \in EntriesFor(changes, x) : \A j \in EntriesFor(changes, x) : i <= j
UniqueIds(records) ==
    \A i, j \in 1 .. Len(records) : i # j => records[i].id # records[j].id

\* ------------------------------------------------------------------ C13
\* C13 as stated: when L holds a record with id x and C holds a tombstone
\* for x anywhere, merge(L, C) holds no record with id x.
C13_Original_AnyTombstoneRemoves ==
    \A x \in MergeIds :
        (/\ MergeReturned
         /\ HasId(merge_local, x)
         /\ \E i \in EntriesFor(merge_remote, x) : Tombstone(merge_remote[i])) =>
            ~HasId(merge_result.records, x)

\* C13 (amended): when L holds a record with id x and the first entry for x
\* in the received order of C is a tombstone, merge(L, C) holds no record
\* with id x, whatever entries follow it.
C13_LeadingTombstoneRemoves ==
    \A x \in MergeIds :
        (/\ MergeReturned
         /\ HasId(merge_local, x)
         /\ EntriesFor(merge_remote, x) # {}
         /\ Tombstone(merge_remote[FirstFor(merge_remote, x)])) =>
            ~HasId(merge_result.records, x)

\* L holds "a"; C gives a tombstone for "a" after an entry for "b" and before
\* a content entry for "a".
C13_Witness ==
    /\ MergeReturned
    /\ HasId(merge_local, "a")
    /\ Len(merge_remote) = 3
    /\ merge_remote[1].id = Some("b")
    /\ merge_remote[2].id = Some("a") /\ Tombstone(merge_remote[2])
    /\ merge_remote[3].id = Some("a") /\ ~Tombstone(merge_remote[3])
    /\ ~HasId(merge_result.records, "a")

\* ------------------------------------------------------------------ C14
\* C14 as stated: a content entry for x followed, later in the received
\* order, by a tombstone for x leaves no record with id x in merge(L, C).
C14_Original_LaterTombstoneWins ==
    \A x \in MergeIds :
        (/\ MergeReturned
         /\ \E i, j \in EntriesFor(merge_remote, x) :
              i < j /\ ~Tombstone(merge_remote[i]) /\ Tombstone(merge_remote[j])) =>
            ~HasId(merge_result.records, x)

\* C14 (amended): the entry for x that comes first in received order decides.
\* A tombstone for x followed by content entries for x leaves no record with
\* id x (the later content does not reintroduce it); a content entry for x
\* followed by a tombstone for x leaves exactly that content entry (the
\* later tombstone does not remove it).
C14_EarlierEntryWins ==
    \A x \in MergeIds :
        (MergeReturned /\ Cardinality(EntriesFor(merge_remote, x)) > 1) =>
            LET first == merge_remote[FirstFor(merge_remote, x)]
            IN  IF Tombstone(first)
                THEN ~HasId(merge_result.records, x)
                ELSE /\ HasId(merge_result.records, x)
                     /\ \A i \in 1 .. Len(merge_result.records) :
                           merge_result.records[i].id = Some(x) =>
                               merge_result.records[i] = first

\* A content entry for "a" is followed by a tombstone for "a", over a local
\* record "a": the result holds the content entry.
C14_Witness ==
    /\ MergeReturned
    /\ HasId(merge_local, "a")
    /\ Len(merge_remote) >= 2
    /\ merge_remote[1].id = Some("a") /\ ~Tombstone(merge_remote[1])
    /\ merge_remote[2].id = Some("a") /\ Tombstone(merge_remote[2])
    /\ \E i \in 1 .. Len(merge_result.records) : merge_result.records[i] = merge_remote[1]

\* ------------------------------------------------------------------ C15
\* C15: merging the same changes into the result of a merge changes nothing:
\* merge(merge(L, C), C) returns, and holds the same records as merge(L, C).
C15_MergeIsIdempotent ==
    (MergeReturned /\ merge_again_result # NotMerged) =>
        /\ merge_again_result.tag = "Ok"
        /\ Range(merge_again_result.records) = Range(merge_result.records)
        /\ Len(merge_again_result.records) = Len(merge_result.records)

\* Merged twice: a local record "a", and changes with two entries for "a"
\* (one a tombstone) and a content entry for "b".
C15_Witness ==
    /\ merge_again_result.tag = "Ok"
    /\ HasId(merge_local, "a")
    /\ Cardinality(EntriesFor(merge_remote, "a")) = 2
    /\ \E i \in EntriesFor(merge_remote, "a") : Tombstone(merge_remote[i])
    /\ \E i \in EntriesFor(merge_remote, "b") : ~Tombstone(merge_remote[i])
    /\ merge_result.records # <<>>

\* ------------------------------------------------------------------ C16
\* The content (non-tombstone) entries of a change sequence.
ContentEntries(changes) == { changes[i] : i \in { k \in 1 .. Len(changes) : ~Tombstone(changes[k]) } }
NoIdOverlap(records, changes) ==
    \A i \in 1 .. Len(records), j \in 1 .. Len(changes) : records[i].id # changes[j].id

\* C16 as stated: when no id of C occurs in L, merge(L, C) is L together
\* with all content entries of C.
C16_Original_DisjointMergeIsUnion ==
    (MergeReturned /\ NoIdOverlap(merge_local, merge_remote)) =>
        Range(merge_result.records) = Range(merge_local) \cup ContentEntries(merge_remote)

\* C16 (amended): when the ids of L are unique, no id occurs twice in C and
\* no id of C occurs in L, merge(L, C) is L together with all content
\* entries of C, each once; the tombstones of C change nothing.
C16_DisjointUniqueMergeIsUnion ==
    (/\ MergeReturned
     /\ NoIdOverlap(merge_local, merge_remote)
     /\ UniqueIds(merge_local)
     /\ UniqueIds(merge_remote)) =>
        /\ Range(merge_result.records) = Range(merge_local) \cup ContentEntries(merge_remote)
        /\ Len(merge_result.records) =
              Len(merge_local) + Cardinality(ContentEntries(merge_remote))

\* A local record "a" merged with one content entry for "b" whose "deleted"
\* member is not a boolean.
C16_Witness ==
    /\ MergeReturned
    /\ Len(merge_local) = 1 /\ merge_local[1].id = Some("a")
    /\ Len(merge_remote) = 1 /\ merge_remote[1].id = Some("b")
    /\ merge_remote[1].deleted = Some("\"foo\"")
    /\ Len(merge_result.records) = 2

\* ------------------------------------------------------------------ C17
\* C17: with unique ids in L, every record of L whose id is the id of no
\* entry of C is in merge(L, C), unchanged.
C17_UntouchedLocalRecordsAreKept ==
    (MergeReturned /\ UniqueIds(merge_local)) =>
        \A i \in 1 .. Len(merge_local) :
            EntriesFor(merge_remote, Unwrap(merge_local[i].id)) = {} =>
                merge_local[i] \in Range(merge_result.records)

\* L holds "a" and "b"; three changes, all for "a", the first a tombstone:
\* the local record "b" is the result.
C17_Witness ==
    /\ MergeReturned
    /\ Len(merge_local) = 2
    /\ UniqueIds(merge_local)
    /\ Cardinality(EntriesFor(merge_remote, "a")) = 3
    /\ Tombstone(merge_remote[1])
    /\ \E i \in 1 .. 2 : merge_local[i].id = Some("b") /\ merge_result.records = <<merge_local[i]>>

\* ------------------------------------------------------------------ C18
\* A get call that directly follows a successful sync on a retaining storage
\* has returned.
GetAfterSync(c) == Returned(c) /\ op[c] = "get" /\ IsSome(last_synced[c])
NoRemoteCall(c) == Count(c, "timestamp") = 0 /\ Count(c, "changeset") = 0
ReturnsRecordsOf(c, coll) ==
    /\ result[c].tag = "Ok"
    /\ IsSome(result[c].records)
    /\ Unwrap(result[c].records) = coll.records

\* C18 as stated: on a retaining storage, the get call that follows a
\* successful sync returns the records of the Collection that sync returned
\* and makes no remote call.
C18_Original_GetAfterSyncReturnsItsRecords ==
    \A c \in Clients :
        GetAfterSync(c) =>
            /\ ReturnsRecordsOf(c, Unwrap(last_synced[c]))
            /\ NoRemoteCall(c)

\* C18 (amended): on a retaining storage, the get call that follows a
\* successful sync and whose retrieve succeeds makes no remote call and no
\* store; it returns the records of the Collection that sync returned when
\* trust_local is set or the verifier accepts that Collection, and the
\* verifier's error as a VerificationError when the verifier rejects it.
C18_GetAfterSyncReadsWhatSyncReturned ==
    \A c \in Clients :
        (GetAfterSync(c) /\ log[c][1].ok) =>
            /\ NoRemoteCall(c)
            /\ Count(c, "store") = 0
            /\ IF trust_local
               THEN /\ Len(log[c]) = 1
                    /\ ReturnsRecordsOf(c, Unwrap(last_synced[c]))
               ELSE /\ Len(log[c]) = 2
                    /\ log[c][2].ev = "verify"
                    /\ log[c][2].coll = last_synced[c]
                    /\ IF log[c][2].ok
                       THEN ReturnsRecordsOf(c, Unwrap(last_synced[c]))
                       ELSE /\ result[c].tag = "Err"
                            /\ Unwrap(result[c].error).type = "VerificationError"

\* After a sync that returned a Collection with a record, an untrusting get
\* read it back, had it verified and returned its records.
C18_Witness ==
    /\ GetAfterSync(Caller)
    /\ ~trust_local
    /\ Len(log[Caller]) = 2
    /\ log[Caller][2].ok
    /\ Unwrap(last_synced[Caller]).records # <<>>
    /\ ReturnsRecordsOf(Caller, Unwrap(last_synced[Caller]))

\* ------------------------------------------------------------------ C19
ErrorTypes == {"VerificationError", "StorageError", "APIError"}
\* The call returned an error to its caller.
ReturnedError(c) == Returned(c) /\ result[c].tag = "Err"
\* The last collaborator call of the call, and the error it failed with.
LastEvent(c) == log[c][Len(log[c])]
SubsystemError(c) == Unwrap(LastEvent(c).error)
\* The variant the failing subsystem maps to, and the subsystem's message
\* where it has one (an unknown collection is reported by its bucket and
\* collection, from which the message is composed).
ClassifiedBySubsystem(c) ==
    LET e == Unwrap(result[c].error)
    IN  /\ e.type \in ErrorTypes
        /\ Len(log[c]) > 0
        /\ ~LastEvent(c).ok =>
             /\ LastEvent(c).ev \in {"timestamp", "changeset", "verify", "store"}
             /\ LastEvent(c).ev \in {"timestamp", "changeset"} =>
                  /\ e.type = "APIError"
                  /\ e.name = IF SubsystemError(c).kind = "UnknownCollection"
                              THEN <<"Unknown collection ", bucket_name, "/", collection_name>>
                              ELSE SubsystemError(c).name
             /\ LastEvent(c).ev = "verify" =>
                  e.type = "VerificationError" /\ e.name = SubsystemError(c).name
             /\ LastEvent(c).ev = "store" =>
                  e.type = "StorageError" /\ e.name = SubsystemError(c).name
        /\ LastEvent(c).ok => (EncodeFailed(c) /\ e.type = "StorageError")

\* C19 as stated: every returned error is one of the three variants, chosen
\* by the failing subsystem, and carries the subsystem's message unchanged
\* (for a failed encoding: the message of the serialization error).
C19_Original_MessageCarriedOverUnchanged ==
    \A c \in Clients :
        ReturnedError(c) =>
            /\ ClassifiedBySubsystem(c)
            /\ LastEvent(c).ok =>
                 Unwrap(result[c].error).name \in { s.name : s \in SerdeErrors }

\* C19 (amended): every returned error is one of the three variants, chosen
\* by the failing subsystem; the message of a failed remote call, verifier
\* call or store is carried over unchanged, except that an unknown
\* collection is reported as "Unknown collection <bucket>/<collection>"; the
\* message of a failed encoding is the serialization error's message
\* prefixed with "Could not de/serialize data: ".  The response payload of
\* a server or client API failure is carried over; there is none otherwise.
C19_ErrorsAreClassifiedBySubsystem ==
    \A c \in Clients :
        ReturnedError(c) =>
            /\ ClassifiedBySubsystem(c)
            /\ LastEvent(c).ok =>
                 Unwrap(result[c].error).name \in
                    { <<"Could not de/serialize data: ">> \o s.name : s \in SerdeErrors }
            /\ Unwrap(result[c].error).response =
                 IF /\ ~LastEvent(c).ok
                    /\ LastEvent(c).ev \in {"timestamp", "changeset"}
                    /\ SubsystemError(c).kind \in {"ServerError", "ClientError"}
                 THEN SubsystemError(c).response
                 ELSE None

\* A sync whose merged Collection was verified and then could not be encoded
\* returned a StorageError.
C19_Witness ==
    /\ ReturnedError(Caller)
    /\ op[Caller] = "sync"
    /\ EncodeFailed(Caller)
    /\ Unwrap(result[Caller].error).type = "StorageError"

\* ------------------------------------------------------------------ C20
\* The first load of the call failed: the retrieve failed, or the bytes it
\* returned do not decode to a Collection.
FirstLoadFailed(c) ==
    /\ Len(log[c]) > 0
    /\ log[c][1].ev = "retrieve"
    /\ \/ ~log[c][1].ok
       \/ /\ storage_type # "DummyStorage"
          /\ IsSome(storage_at_call[c])
          /\ IsNone(Decode(Unwrap(storage_at_call[c])))
\* The load at position i of the log got no Collection: nothing is held, the
\* retrieve failed, or the bytes do not decode.
LoadGotNoCollection(c, i) ==
    \/ ~log[c][i].ok
    \/ storage_type = "DummyStorage"
    \/ IsNone(storage_at_call[c])
    \/ IsNone(Decode(Unwrap(storage_at_call[c])))
\* No error of the load is what the caller got.
LoadErrorNotReturned(c) ==
    result[c].tag = "Err" =>
        /\ LastEvent(c).ev # "retrieve"
        /\ Unwrap(result[c].error).name \notin { e.name : e \in StorageReadErrors }
\* The records of a Collection built from `changes` alone.
BuiltFrom(records, changes) ==
    /\ Range(records) = ContentOf(changes)
    /\ Len(records) = Cardinality(ContentOf(changes))
\* What a call does when Persistence holds no value: no local Collection is
\* verified, the changeset is fetched without `since`, what is stored and
\* returned is built from the fetched changes alone, and a get that fetches
\* nothing returns the empty list.
AsWithNoValue(c) ==
    /\ \A i \in Events(c, "verify") : i > 1 /\ log[c][i - 1].ev = "changeset"
    /\ \A i \in Events(c, "changeset") : log[c][i].since = None
    /\ \A i \in Events(c, "store") :
          \E j \in Events(c, "changeset") :
             /\ log[c][j].ok
             /\ BuiltFrom(Unwrap(log[c][i].coll).records, Unwrap(log[c][j].response).changes)
             /\ Unwrap(log[c][i].coll).timestamp = Unwrap(log[c][j].response).timestamp
    /\ Count(c, "store") = 0 => storage = storage_at_call[c]
    /\ result[c].tag = "Ok" =>
          IF Count(c, "changeset") = 0
          THEN op[c] = "get" /\ ~sync_if_empty /\ result[c] = OkRecords(<<>>) /\ Len(log[c]) = 1
          ELSE \E j \in Events(c, "changeset") :
                 /\ log[c][j].ok
                 /\ BuiltFrom(IF op[c] = "get" THEN Unwrap(result[c].records)
                              ELSE Unwrap(result[c].collection).records,
                              Unwrap(log[c][j].response).changes)

\* C20 as stated: a retrieve failure or a decode failure in the load step is
\* never returned, and the call goes on exactly as with no value held.
C20_Original_FailedLoadIsAbsence ==
    \A c \in Clients :
        (Returned(c) /\ FirstLoadFailed(c)) =>
            /\ LoadErrorNotReturned(c)
            /\ AsWithNoValue(c)

\* C20 (amended): a retrieve failure or a decode failure in the load step is
\* never returned; the call goes on exactly as with no value held unless a
\* later load of the same call (the one of the sync inside get) finds a
\* Collection.
C20_FailedLoadIsAbsenceUnlessReloaded ==
    \A c \in Clients :
        (Returned(c) /\ FirstLoadFailed(c)) =>
            /\ LoadErrorNotReturned(c)
            /\ (\A i \in Events(c, "retrieve") : LoadGotNoCollection(c, i)) => AsWithNoValue(c)

\* A get whose retrieve failed fell back to sync, whose own retrieve failed
\* too, and returned the records of a fetched changeset.
C20_Witness ==
    /\ Returned(Caller)
    /\ op[Caller] = "get"
    /\ IsSome(storage_at_call[Caller])
    /\ Count(Caller, "retrieve") = 2
    /\ \A i \in Events(Caller, "retrieve") : ~log[Caller][i].ok
    /\ result[Caller].tag = "Ok"
    /\ Unwrap(result[Caller].records) # <<>>

\* ------------------------------------------------------------------ C21
\* Both required members of the record resolve.
Resolvable(r) == IsSome(Record_get(r, "id")) /\ IsSome(Record_get(r, "last_modified"))
AllResolvable(records) == \A i \in 1 .. Len(records) : Resolvable(records[i])

\* C21 as stated: every Record that get or sync stores in Persistence or
\* returns to the caller has a resolvable id and a resolvable last_modified,
\* whatever the cached bytes and the remote change entries are.
C21_Original_EveryRecordIsResolvable ==
    \A c \in Clients :
        /\ \A i \in Events(c, "store") : AllResolvable(Unwrap(log[c][i].coll).records)
        /\ (Returned(c) /\ result[c].tag = "Ok") =>
              AllResolvable(IF IsSome(result[c].records)
                            THEN Unwrap(result[c].records)
                            ELSE Unwrap(result[c].collection).records)

\* ------------------------------------------------------------------ C22
\* The position in the log of the retrieve of sync: the first call of a
\* public sync, the second of a get that fell back to sync.
SyncLoadIndex(c) == IF op[c] = "sync" THEN 1 ELSE 2
\* sync has loaded the local state.
SyncLoaded(c) ==
    /\ Len(log[c]) >= SyncLoadIndex(c)
    /\ log[c][SyncLoadIndex(c)].ev = "retrieve"
SyncLocal(c) == LoadedAt(c, SyncLoadIndex(c))
\* The target timestamp of the sync, once known.
SyncTarget(c) ==
    IF op[c] = "sync" /\ IsSome(expected[c]) THEN expected[c]
    ELSE IF /\ Len(log[c]) > SyncLoadIndex(c)
            /\ log[c][SyncLoadIndex(c) + 1].ev = "timestamp"
            /\ log[c][SyncLoadIndex(c) + 1].ok
         THEN log[c][SyncLoadIndex(c) + 1].expected
         ELSE None
\* The verifier calls of sync's freshness check (on the local Collection,
\* not on a merged one).
FreshnessChecks(c) ==
    { i \in Events(c, "verify") :
        SyncLoaded(c) /\ i > SyncLoadIndex(c) /\ log[c][i - 1].ev # "changeset" }

\* C22: a verifier failure in the freshness check of sync is not returned:
\* sync goes on to the changeset fetch.  A stale local Collection is not
\* verified at all and sync fetches.  The only VerificationError sync
\* returns is the rejection of the newly merged Collection.
C22_FreshnessFailureIsSwallowed ==
    \A c \in Clients :
        /\ \A i \in FreshnessChecks(c) :
              ~log[c][i].ok =>
                  IF Len(log[c]) = i
                  THEN pc[c] = "sync_fetch"
                  ELSE log[c][i + 1].ev = "changeset"
        /\ (/\ Returned(c)
            /\ SyncLoaded(c)
            /\ IsSome(SyncLocal(c))
            /\ IsSome(SyncTarget(c))
            /\ Unwrap(SyncLocal(c)).timestamp # Unwrap(SyncTarget(c))) =>
                 /\ FreshnessChecks(c) = {}
                 /\ Count(c, "changeset") = 1
        /\ (/\ Returned(c)
            /\ SyncLoaded(c)
            /\ result[c].tag = "Err"
            /\ Unwrap(result[c].error).type = "VerificationError") =>
                 MergedVerified(c, Len(log[c]), FALSE)

\* A sync found its local Collection at the target timestamp, the verifier
\* rejected it, and the sync fetched, merged and returned a new Collection.
C22_Witness ==
    /\ Returned(Caller)
    /\ op[Caller] = "sync"
    /\ \E i \in FreshnessChecks(Caller) : ~log[Caller][i].ok
    /\ result[Caller].tag = "Ok"

\* ------------------------------------------------------------------ C23
\* The records sync merges the fetched changes into.
SyncLocalRecords(c) == IF IsSome(SyncLocal(c)) THEN Unwrap(SyncLocal(c)).records ELSE <<>>

\* C23: the changeset fetch of sync carries expected = the target timestamp
\* and since = the timestamp of the local Collection sync decoded (also when
\* the verifier rejected it), and no since exactly when none was decoded;
\* the Collection then verified holds a merge of the records of that local
\* Collection (none when there is none) with the fetched changes.
C23_FetchUsesLocalTimestampAndRecords ==
    \A c \in Clients :
        \A j \in Events(c, "changeset") :
            /\ SyncLoaded(c)
            /\ j > SyncLoadIndex(c)
            /\ log[c][j].expected = SyncTarget(c)
            /\ log[c][j].since =
                  IF IsSome(SyncLocal(c)) THEN Some(Unwrap(SyncLocal(c)).timestamp) ELSE None
            /\ (Len(log[c]) > j /\ log[c][j + 1].ev = "verify") =>
                  Unwrap(log[c][j + 1].coll).records \in
                      merge_changes(SyncLocalRecords(c), Unwrap(log[c][j].response).changes)

\* A sync whose local Collection (one record) was rejected in the freshness
\* check fetched with since = its timestamp and had the merge verified.
C23_Witness ==
    /\ Returned(Caller)
    /\ op[Caller] = "sync"
    /\ IsSome(SyncLocal(Caller))
    /\ SyncLocalRecords(Caller) # <<>>
    /\ \E i \in FreshnessChecks(Caller) : ~log[Caller][i].ok
    /\ \E j \in Events(Caller, "changeset") :
          /\ log[Caller][j].since = Some(Unwrap(SyncLocal(Caller)).timestamp)
          /\ Len(log[Caller]) > j
          /\ log[Caller][j + 1].ev = "verify"
          /\ Unwrap(log[Caller][j].response).changes # <<>>

\* ------------------------------------------------------------------ C24
\* The records of the result with id x.
WithId(records, x) == { i \in 1 .. Len(records) : records[i].id = Some(x) }

\* C24: for every id x named in C the state of x in merge(L, C) is that of
\* the first entry for x in received order: one record with exactly that
\* entry's fields if it is content, none if it is a tombstone, whatever L
\* holds and whatever entries for x follow.
C24_FirstReceivedEntryDecides ==
    \A x \in MergeIds :
        (MergeReturned /\ EntriesFor(merge_remote, x) # {}) =>
            LET first == merge_remote[FirstFor(merge_remote, x)]
                held == WithId(merge_result.records, x)
            IN  IF Tombstone(first)
                THEN held = {}
                ELSE /\ Cardinality(held) = 1
                     /\ \A i \in held : merge_result.records[i] = first

\* L holds "a"; C has three entries for "a" with different fields, the first
\* a content entry, a later one a tombstone: the result holds the first.
C24_Witness ==
    /\ MergeReturned
    /\ HasId(merge_local, "a")
    /\ Cardinality(EntriesFor(merge_remote, "a")) = 3
    /\ ~Tombstone(merge_remote[1])
    /\ merge_remote[2] # merge_remote[1]
    /\ Tombstone(merge_remote[3])
    /\ merge_remote[1] \notin Range(merge_local)
    /\ \E i \in WithId(merge_result.records, "a") : merge_result.records[i] = merge_remote[1]

\* ------------------------------------------------------------------ C25
\* The greatest last_modified of the records.
MaxLastModified(records) ==
    LET stamps == { Unwrap(Record_get(records[i], "last_modified")) : i \in 1 .. Len(records) }
    IN  CHOOSE m \in stamps : \A n \in stamps : n <= m
\* The timestamp of the Collection is the greatest last_modified of its
\* records (said of Collections that have records, all with last_modified).
TimestampIsMaxLastModified(coll) ==
    (coll.records # <<>> /\ AllResolvable(coll.records)) =>
        coll.timestamp = MaxLastModified(coll.records)
\* The Collections sync has built, handed to the store, or returned.
SyncCollections(c) ==
    { Unwrap(collection[c]) : x \in { y \in {1} : IsSome(collection[c]) } }
        \cup { Unwrap(log[c][i].coll) : i \in Events(c, "store") }
        \cup { Unwrap(result[c].collection) :
                 x \in { y \in {1} : Returned(c) /\ IsSome(result[c].collection) } }

\* C25 as stated: every Collection that sync builds, stores or returns has a
\* timestamp equal to the maximum last_modified of its records.
C25_Original_TimestampIsMaxLastModified ==
    \A c \in Clients : \A coll \in SyncCollections(c) : TimestampIsMaxLastModified(coll)

\* C25 (amended): every Collection that sync builds, stores or returns after
\* a changeset fetch has the timestamp of the fetched changeset response,
\* whatever the last_modified of its records; a Collection returned without
\* fetch is the local one and its timestamp is the target timestamp.
C25_TimestampIsTheChangesetTimestamp ==
    \A c \in Clients : \A coll \in SyncCollections(c) :
        IF Count(c, "changeset") = 0
        THEN /\ SyncLocal(c) = Some(coll)
             /\ Some(coll.timestamp) = SyncTarget(c)
        ELSE \E j \in Events(c, "changeset") :
                /\ log[c][j].ok
                /\ coll.timestamp = Unwrap(log[c][j].response).timestamp

\* A sync returned a Collection with a record whose last_modified is below
\* the timestamp of the changeset it was built from.
C25_Witness ==
    /\ Returned(Caller)
    /\ op[Caller] = "sync"
    /\ IsSome(result[Caller].collection)
    /\ Count(Caller, "store") = 1
    /\ Unwrap(result[Caller].collection).records # <<>>
    /\ AllResolvable(Unwrap(result[Caller].collection).records)
    /\ Unwrap(result[Caller].collection).timestamp >
          MaxLastModified(Unwrap(result[Caller].collection).records)

\* ------------------------------------------------------------------ C26
\* The Collection a retaining Persistence held when the call began.
HeldAtCall(c) ==
    IF storage_type # "DummyStorage" /\ IsSome(storage_at_call[c])
    THEN Decode(Unwrap(storage_at_call[c]))
    ELSE None
\* A successful sync leaves the Collection it returned in a retaining
\* Persistence, and a call changes Persistence by its store only.
SyncResultIsPersisted(c) ==
    /\ (/\ Returned(c)
        /\ op[c] = "sync"
        /\ result[c].tag = "Ok"
        /\ storage_type # "DummyStorage") =>
             /\ IsSome(storage)
             /\ Decode(Unwrap(storage)) = result[c].collection
    /\ (op[c] # "none" /\ Count(c, "store") = 0) => storage = storage_at_call[c]
\* A public sync that began over the persisted Collection has returned.
SyncOverPersisted(c) == Returned(c) /\ op[c] = "sync" /\ IsSome(HeldAtCall(c))
\* The sync returned the persisted Collection without fetch and store.
ReturnsPersisted(c) ==
    /\ result[c] = OkCollection(Unwrap(HeldAtCall(c)))
    /\ Count(c, "changeset") = 0
    /\ Count(c, "store") = 0
    /\ storage = storage_at_call[c]
FetchedSince(c, ts) ==
    /\ Count(c, "changeset") = 1
    /\ \A j \in Events(c, "changeset") : log[c][j].since = Some(ts)

\* C26 as stated: over a persisted Collection with timestamp ts, a sync whose
\* target is ts and in which the verifier rejects nothing returns that
\* Collection with no fetch and no store; a sync whose target differs from
\* ts fetches with since = ts.
C26_Original_TrustedUntilTimestampMismatch ==
    \A c \in Clients :
        /\ SyncResultIsPersisted(c)
        /\ (SyncOverPersisted(c) /\ IsSome(SyncTarget(c))) =>
              IF Unwrap(SyncTarget(c)) = Unwrap(HeldAtCall(c)).timestamp
              THEN (\A i \in Events(c, "verify") : log[c][i].ok) => ReturnsPersisted(c)
              ELSE FetchedSince(c, Unwrap(HeldAtCall(c)).timestamp)

\* C26 (amended): the Collection a successful sync returned is what a
\* retaining Persistence holds until the next store.  Over it, a sync whose
\* retrieve succeeds and whose target is ts asks the verifier about it once
\* and, when accepted, returns it with no fetch and no store; a sync whose
\* retrieve succeeds and whose target differs from ts fetches with since =
\* ts without asking the verifier first.
C26_TrustedWhileReadableUntilMismatch ==
    \A c \in Clients :
        /\ SyncResultIsPersisted(c)
        /\ (SyncOverPersisted(c) /\ IsSome(SyncTarget(c)) /\ log[c][1].ok) =>
              IF Unwrap(SyncTarget(c)) = Unwrap(HeldAtCall(c)).timestamp
              THEN /\ Cardinality(FreshnessChecks(c)) = 1
                   /\ \A i \in FreshnessChecks(c) :
                         /\ log[c][i].coll = HeldAtCall(c)
                         /\ log[c][i].ok => ReturnsPersisted(c)
                         /\ ~log[c][i].ok => FetchedSince(c, Unwrap(HeldAtCall(c)).timestamp)
              ELSE /\ FreshnessChecks(c) = {}
                   /\ FetchedSince(c, Unwrap(HeldAtCall(c)).timestamp)

\* The sync before stored and returned a Collection; this sync, with the
\* same target, had it accepted again and returned it without fetch.
C26_Witness ==
    /\ SyncOverPersisted(Caller)
    /\ last_synced[Caller] = HeldAtCall(Caller)
    /\ SyncTarget(Caller) = Some(Unwrap(HeldAtCall(Caller)).timestamp)
    /\ ReturnsPersisted(Caller)

\* ------------------------------------------------------------------ C27
\* The successful stores of the call of instance c.
StoresDone(c) == { i \in Events(c, "store") : log[c][i].ok }
\* The store at position i of the call of c wrote the Collection that the
\* verifier accepted in the step before, and was the last step of the call.
StoreFollowsOwnVerification(c, i) ==
    /\ i > 1
    /\ log[c][i - 1] = VerifyEvent(Unwrap(log[c][i].coll), TRUE)
    /\ i = Len(log[c])
    /\ pc[c] = "idle"

\* C27: under any interleaving of two sync calls of two instances on one
\* key, Persistence holds its initial value until a store succeeds, and from
\* then on exactly the encoding of the Collection one of the calls built,
\* had verified and stored; every call stores at most once, after its own
\* verification succeeded and as its last step.
C27_ConcurrentStoresAreWholeAndVerified ==
    /\ \A c \in Clients :
          /\ Count(c, "store") <= 1
          /\ \A i \in Events(c, "store") : StoreFollowsOwnVerification(c, i)
    /\ IF \A c \in Clients : StoresDone(c) = {}
       THEN \A c \in Clients : op[c] # "none" => storage = storage_at_call[c]
       ELSE \E c \in Clients : \E i \in StoresDone(c) :
               storage = Some(Encode(Unwrap(log[c][i].coll)))

\* Both calls loaded the empty Persistence before either stored, and both
\* stored: two different Collections, of which Persistence holds one.
C27_Witness ==
    /\ \A c \in Clients :
          /\ Returned(c)
          /\ storage_at_call[c] = None
          /\ log[c][1].ok
          /\ StoresDone(c) # {}
          /\ \E j \in Events(c, "changeset") : log[c][j].since = None
    /\ result["c1"] # result["c2"]
====
